---- MODULE Spec2Model ----
(***************************************************************************)
(* wasi-stub (src/wasi-stub/src/main.rs): rewrites a WebAssembly module so *)
(* that the imports of the namespace "wasi_snapshot_preview1" are replaced *)
(* by locally defined stub functions.                                      *)
(*                                                                         *)
(* A module (the input `binary`, and the bytes `result.finish()` returns)  *)
(* is a sequence of sections [id, data].  `data` is the decoded content of *)
(* the section's bytes: a type table, an import list, a list of type       *)
(* indices, a list of function bodies, or the opaque content of a section  *)
(* the program never looks into.                                           *)
(***************************************************************************)
EXTENDS Integers, Sequences, FiniteSets, TLC

VARIABLES
    binary,          \* main: the input module (Args.binary)
    list,            \* main: Args.list
    pc,              \* position in main / process_payloads
    payloads,        \* main: parser.parse_all(&binary)
    idx,             \* process_payloads: number of payloads already handled
    result,          \* process_payloads: wasm_encoder::Module being assembled
    types,           \* process_payloads: Vec<Type>
    to_stub,         \* process_payloads: Vec<Import>
    code_section,    \* process_payloads: wasm_encoder::CodeSection
    in_code_section, \* process_payloads: bool
    after_wasi,      \* process_payloads: counter
    stub_pos,        \* process_payloads: position of `for f in &to_stub` (line 103)
    stdout,          \* lines printed by println!
    output,          \* the Vec<u8> process_payloads returned (a module), or None
    written,         \* the buffers handed to write_output, in order
    outcome,         \* how the run ended
    run,             \* which invocation the variables above belong to
    suspended,       \* the frame of the other invocation, if there is one
    output_path,     \* main: Args.output_path (an Option)
    files,           \* the entries of the directory of the input
    counter,         \* write_output: i, the counter of the path search
    probes,          \* write_output: the paths tested with exists(), in order
    target,          \* write_output: the output path it settled on (an Option)
    permissions      \* write_output: the permissions read from the input (an Option)

\* The invocations side by side, and write_output with its file system.
peer == <<run, suspended>>
fsvars == <<output_path, files, counter, probes, target, permissions>>

vars == <<binary, list, pc, payloads, idx, result, types, to_stub, code_section,
          in_code_section, after_wasi, stub_pos, stdout, output, written, outcome,
          run, suspended, output_path, files, counter, probes, target, permissions>>

(***************************************************************************)
(* Bounds of the input space.                                              *)
(***************************************************************************)
MaxImports == 3
MaxFuncs == 2

(***************************************************************************)
(* Program constants.                                                      *)
(***************************************************************************)
TargetNamespace == "wasi_snapshot_preview1"
Sentinel == 76

(***************************************************************************)
(* Generic helpers.                                                        *)
(***************************************************************************)
RECURSIVE SeqsUpTo(_, _)
SeqsUpTo(S, n) ==
    IF n = 0 THEN {<<>>}
    ELSE LET shorter == SeqsUpTo(S, n - 1)
         IN  shorter \cup {Append(s, x) : s \in {t \in shorter : Len(t) = n - 1}, x \in S}

RECURSIVE Flatten(_)
Flatten(ss) == IF ss = <<>> THEN <<>> ELSE Head(ss) \o Flatten(Tail(ss))

(***************************************************************************)
(* The module format, as far as wasmparser and wasm_encoder show it to the *)
(* program.  Value types and function signatures of the type section:      *)
(***************************************************************************)
Sig(ps, rs) == [params |-> ps, results |-> rs]

SigVoid == Sig(<<>>, <<>>)
SigErrno == Sig(<<"i32", "i64">>, <<"i32">>)
SigWide == Sig(<<"i64">>, <<"i64">>)
SigPair == Sig(<<"i32">>, <<"i32", "i32">>)

\* The type tables of the input modules.
TypeTables == { <<SigVoid, SigErrno>>, <<SigWide, SigPair>> }

\* wasmparser::TypeRef, the descriptor of an import.
TypeRefFunc(t) == <<"Func", t>>
TypeRefMemory == <<"Memory", 0>>

\* wasmparser::Import.  The name is the identity of the import.
Import(m, n, ty) == [module |-> m, name |-> n, ty |-> ty]

\* Instructions of a function body.  Opaque(j, sig) stands for the
\* instruction bytes of the j-th original body, which the program never
\* decodes; they were compiled for a function of signature sig.
End == [op |-> "end"]
I32Const(v) == [op |-> "i32.const", value |-> v]
Opaque(j, sig) == [op |-> "opaque", id |-> j, sig |-> sig]

\* A function body: its local declarations (count, value type) and its
\* instructions.
Body(ls, is) == [locals |-> ls, instrs |-> is]

Section(id, data) == [id |-> id, data |-> data]

\* The order the format fixes for the sections the model has.
SectionOrder == <<"type", "import", "function", "export", "code", "data">>
Rank(id) == CHOOSE r \in 1..Len(SectionOrder) : SectionOrder[r] = id

HasSection(m, id) == \E s \in 1..Len(m) : m[s].id = id
SectionData(m, id) ==
    IF HasSection(m, id) THEN m[CHOOSE s \in 1..Len(m) : m[s].id = id].data ELSE <<>>

IsFuncImport(imp) == imp.ty[1] = "Func"
IsMemoryImport(imp) == imp.ty[1] = "Memory"

\* The function index space of a module, as the type index of each function:
\* imported functions in import order, then the declared functions.
ImportedFuncTypes(m) ==
    LET fs == SelectSeq(SectionData(m, "import"), IsFuncImport)
    IN  [f \in 1..Len(fs) |-> fs[f].ty[2]]

FunctionIndexSpace(m) == ImportedFuncTypes(m) \o SectionData(m, "function")

(***************************************************************************)
(* wasmparser::validate, on the features the model has.                    *)
(***************************************************************************)
RECURSIVE Exec(_, _)
\* The operand stack after the instructions `is`, started from `stack`.
Exec(is, stack) ==
    IF is = <<>> THEN stack
    ELSE IF Head(is).op = "i32.const" THEN Exec(Tail(is), Append(stack, "i32"))
    ELSE Exec(Tail(is), stack)

\* A body is well typed for signature sig: opaque original instructions are
\* well typed for the signature they were compiled for; synthesized
\* instructions must leave exactly the results on the stack at `end`.
BodyWellTyped(body, sig) ==
    LET is == body.instrs
    IN  /\ is # <<>>
        /\ IF is[1].op = "opaque"
           THEN Len(is) = 1 /\ is[1].sig = sig
           ELSE /\ is[Len(is)].op = "end"
                /\ \A k \in 1..(Len(is) - 1) : is[k].op = "i32.const"
                /\ Exec(is, <<>>) = sig.results

SectionsInOrder(m) ==
    \A a, b \in 1..Len(m) : a < b => Rank(m[a].id) < Rank(m[b].id)

Validate(m) ==
    LET tys == SectionData(m, "type")
        imps == SectionData(m, "import")
        funcs == SectionData(m, "function")
        code == SectionData(m, "code")
        nTypes == Len(tys)
    IN  /\ SectionsInOrder(m)
        /\ \A k \in 1..Len(imps) : IsFuncImport(imps[k]) => imps[k].ty[2] < nTypes
        /\ Len(SelectSeq(imps, IsMemoryImport)) <= 1
        /\ \A k \in 1..Len(funcs) : funcs[k] < nTypes
        /\ Len(funcs) = Len(code)
        /\ \A k \in 1..Len(code) : BodyWellTyped(code[k], tys[funcs[k] + 1])
        /\ \A s \in 1..Len(m) :
               /\ m[s].id = "export" => m[s].data[2] < Len(FunctionIndexSpace(m))
               /\ m[s].id = "data" => Len(SelectSeq(imps, IsMemoryImport)) >= 1

(***************************************************************************)
(* The input modules.                                                      *)
(***************************************************************************)
Namespaces == {TargetNamespace, "env"}

\* Descriptors of the generated imports: a function of the first or the
\* second type, or a memory.
Descriptors == {TypeRefFunc(0), TypeRefFunc(1), TypeRefMemory}

ImportLists ==
    LET shapes == SeqsUpTo(Namespaces \X Descriptors, MaxImports)
    IN  {[k \in 1..Len(sh) |-> Import(sh[k][1], k, sh[k][2])] : sh \in shapes}

\* The type of a declared function, or the void signature when the index
\* is out of range (such a module is invalid whatever its bodies are).
SigOf(tys, t) == IF t < Len(tys) THEN tys[t + 1] ELSE SigVoid

MkModule(tys, imps, hasFuncs, funcs, hasCode, export, hasData) ==
    Flatten(<<
        IF tys # <<>> THEN <<Section("type", tys)>> ELSE <<>>,
        IF imps # <<>> THEN <<Section("import", imps)>> ELSE <<>>,
        IF hasFuncs \/ funcs # <<>> THEN <<Section("function", funcs)>> ELSE <<>>,
        IF export # <<>> THEN <<Section("export", <<"func", export[1]>>)>> ELSE <<>>,
        IF hasCode
        THEN <<Section("code",
                 [j \in 1..Len(funcs) |-> Body(<<>>, <<Opaque(j, SigOf(tys, funcs[j]))>>)])>>
        ELSE <<>>,
        IF hasData THEN <<Section("data", <<"segment", 0>>)>> ELSE <<>>
    >>)

\* The function sections of the input modules: up to MaxFuncs declarations,
\* all of the first or all of the second type.
FunctionLists == {[j \in 1..n |-> t] : n \in 0..MaxFuncs, t \in {0, 1}}

Modules ==
    {MkModule(tys, imps, hasFuncs, funcs, hasCode, export, hasData) :
        tys \in TypeTables, imps \in ImportLists,
        hasFuncs \in BOOLEAN, funcs \in FunctionLists,
        hasCode \in BOOLEAN, export \in {<<>>, <<0>>},
        hasData \in BOOLEAN}

(***************************************************************************)
(* Parser::parse_all: the payloads of a module.  A payload carries what    *)
(* as_section() gives for it (id, and the bytes of the range as data).     *)
(***************************************************************************)
Payload(kind, id, data) == [kind |-> kind, id |-> id, data |-> data]

PayloadKind(id) ==
    CASE id = "type" -> "TypeSection"
      [] id = "import" -> "ImportSection"
      [] id = "function" -> "FunctionSection"
      [] OTHER -> "OtherSection"

SectionPayloads(sec) ==
    IF sec.id = "code"
    THEN <<Payload("CodeSectionStart", sec.id, <<>>)>>
         \o [j \in 1..Len(sec.data) |-> Payload("CodeSectionEntry", "", sec.data[j])]
    ELSE <<Payload(PayloadKind(sec.id), sec.id, sec.data)>>

ParseAll(m) ==
    <<Payload("Version", "", <<>>)>>
    \o Flatten([s \in 1..Len(m) |-> SectionPayloads(m[s])])
    \o <<Payload("End", "", <<>>)>>

\* Payload::as_section(): Some((id, range)) for a section payload.
AsSection(p) == IF p.id # "" THEN <<Section(p.id, p.data)>> ELSE <<>>

(***************************************************************************)
(* wasm_encoder: the sections of the module being assembled.  A section is *)
(* either raw (id and bytes, as in the binary) or built entry by entry     *)
(* from encoder values; Module::finish serializes both kinds.              *)
(***************************************************************************)
RawSection(id, data) == [id |-> id, raw |-> TRUE, data |-> data]
EncSection(id, data) == [id |-> id, raw |-> FALSE, data |-> data]

\* parser_to_encoder: ValType -> wasm_encoder::ValType
ConvertValType(t) ==
    CASE t = "i32" -> "I32"
      [] t = "i64" -> "I64"
      [] t = "f32" -> "F32"
      [] t = "f64" -> "F64"

\* parser_to_encoder: TypeRef -> wasm_encoder::EntityType
ConvertTypeRef(ty) ==
    CASE ty[1] = "Func" -> <<"Function", ty[2]>>
      [] ty[1] = "Memory" -> <<"Memory", ty[2]>>

\* The bytes wasm_encoder writes for a value type and an entity type, as the
\* parser reads them back.
EncodeValType(t) ==
    CASE t = "I32" -> "i32"
      [] t = "I64" -> "i64"
      [] t = "F32" -> "f32"
      [] t = "F64" -> "f64"

EncodeEntityType(ty) ==
    CASE ty[1] = "Function" -> <<"Func", ty[2]>>
      [] ty[1] = "Memory" -> <<"Memory", ty[2]>>

\* An entry of wasm_encoder::CodeSection: raw bytes of a body, or a
\* wasm_encoder::Function (locals and instructions).
RawEntry(body) == [raw |-> TRUE, body |-> body]
FunctionEntry(ls, is) == [raw |-> FALSE, body |-> Body(ls, is)]

EncodeEntry(e) ==
    IF e.raw THEN e.body
    ELSE Body([l \in 1..Len(e.body.locals) |->
                  <<e.body.locals[l][1], EncodeValType(e.body.locals[l][2])>>],
              e.body.instrs)

EncodeSection(sec) ==
    IF sec.raw THEN Section(sec.id, sec.data)
    ELSE CASE sec.id = "import" ->
                Section(sec.id, [k \in 1..Len(sec.data) |->
                    Import(sec.data[k].module, sec.data[k].name,
                           EncodeEntityType(sec.data[k].ty))])
           [] sec.id = "function" -> Section(sec.id, sec.data)
           [] sec.id = "code" ->
                Section(sec.id, [k \in 1..Len(sec.data) |-> EncodeEntry(sec.data[k])])

\* wasm_encoder::Module::finish
ModuleFinish(res) == [s \in 1..Len(res) |-> EncodeSection(res[s])]

(***************************************************************************)
(* process_payloads: the pieces of the section handlers.                   *)
(***************************************************************************)
\* The iteration with a pass-through import put in front of the section.
ImportStepPrepending(acc, import) ==
    IF import.module = TargetNamespace
    THEN [acc EXCEPT !.after_wasi_count = <<0>>,
                     !.to_stub = Append(@, import)]
    ELSE [acc EXCEPT !.after_wasi_count = IF @ # <<>> THEN <<@[1] + 1>> ELSE @,
                     !.imports = <<Import(import.module, import.name,
                                          ConvertTypeRef(import.ty))>> \o @]

\* One iteration of the loop over the import section.  acc holds the
\* ImportSection being built, to_stub and after_wasi_count (an Option: the
\* empty sequence is None).
ImportStep(acc, import) ==
    IF import.module = TargetNamespace
    THEN [acc EXCEPT !.after_wasi_count = <<0>>,
                     !.to_stub = Append(@, import)]
    ELSE [acc EXCEPT !.after_wasi_count = IF @ # <<>> THEN <<@[1] + 1>> ELSE @,
                     !.imports = Append(@, Import(import.module, import.name,
                                                  ConvertTypeRef(import.ty)))]

RECURSIVE ImportLoop(_, _)
ImportLoop(acc, imps) ==
    IF imps = <<>> THEN acc ELSE ImportLoop(ImportStep(acc, Head(imps)), Tail(imps))

\* after_wasi_count.unwrap_or(0)
UnwrapOr0(opt) == IF opt # <<>> THEN opt[1] ELSE 0

\* The declarations the function section gets for to_stub: the type index
\* of every entry whose descriptor is a function.
StubDeclarations(stubs) ==
    LET fs == SelectSeq(stubs, IsFuncImport)
    IN  [k \in 1..Len(fs) |-> fs[k].ty[2]]

\* A stub that pushes the sentinel whatever the results are.
StubFunctionAlwaysConst(function_type) ==
    FunctionEntry([p \in 1..Len(function_type.params) |->
                      <<1, ConvertValType(function_type.params[p])>>],
                  <<I32Const(Sentinel), End>>)

\* The wasm_encoder::Function built for a stub of type function_type.
StubFunction(function_type) ==
    LET locals == [p \in 1..Len(function_type.params) |->
                      <<1, ConvertValType(function_type.params[p])>>]
    IN  IF function_type.results = <<>>
        THEN FunctionEntry(locals, <<End>>)
        ELSE FunctionEntry(locals, <<I32Const(Sentinel), End>>)

\* The entries the code section gets for to_stub.
StubEntries(stubs, tys) ==
    LET fs == SelectSeq(stubs, IsFuncImport)
    IN  [k \in 1..Len(fs) |-> StubFunction(tys[fs[k].ty[2] + 1])]

\* The lines println! writes for to_stub.
StubReports(stubs) == [k \in 1..Len(stubs) |-> <<"found", stubs[k].module, stubs[k].name>>]

ListNote == <<"NOTE", "", 0>>

(***************************************************************************)
(* write_output: paths.  A path is a file name in the directory of the     *)
(* input; the input path is kept as its stem and its extension.            *)
(***************************************************************************)
InputPath == [stem |-> "module", extension |-> "wasm"]

\* Path::file_stem
FileStem(path) == path.stem

PathName(path) == path.stem \o "." \o path.extension

\* The file name the search loop builds for the counter n.
CandidateName(stem, n) ==
    IF n > 0
    THEN stem \o " - stubbed (" \o ToString(n) \o ").wasm"
    ELSE stem \o " - stubbed.wasm"

(***************************************************************************)
(* write_output: the file system, as the entries of the directory of the   *)
(* input.  An entry is a regular file that can be written or not, a        *)
(* directory, or a symbolic link to a name of the same directory.          *)
(***************************************************************************)
RegularFile(name, mode) == [name |-> name, kind |-> "file", mode |-> mode, to |-> ""]
Directory(name) == [name |-> name, kind |-> "dir", mode |-> "rw", to |-> ""]
Symlink(name, to) == [name |-> name, kind |-> "link", mode |-> "rw", to |-> to]

HasEntry(fs, p) == \E e \in fs : e.name = p
Entry(fs, p) == CHOOSE e \in fs : e.name = p

\* The number of symbolic links the kernel follows on one path before it
\* gives up with ELOOP.
MaxSymlinks == 40

RECURSIVE Follow(_, _, _)
\* The name at the end of the chain of symbolic links that starts at p, n
\* links already followed, as an Option: none when the chain has more than
\* MaxSymlinks links (a chain that comes back to itself has).
Follow(fs, p, n) ==
    IF HasEntry(fs, p) /\ Entry(fs, p).kind = "link"
    THEN IF n = MaxSymlinks
         THEN <<>>
         ELSE CHOOSE r \in {Follow(fs, link.to, n + 1) : link \in {Entry(fs, p)}} : TRUE
    ELSE <<p>>

\* The name a path stands for once its symbolic links are followed.
Resolve(fs, p) == Follow(fs, p, 0)

\* Path::exists: the path, links followed, is a file or a directory.
Exists(fs, p) == Resolve(fs, p) # <<>> /\ HasEntry(fs, Resolve(fs, p)[1])

\* std::fs::write succeeds: the file is created, or is a file open to writing.
CanWrite(fs, p) ==
    LET r == Resolve(fs, p)
    IN  /\ r # <<>>
        /\ HasEntry(fs, r[1]) =>
               Entry(fs, r[1]).kind = "file" /\ Entry(fs, r[1]).mode \in {"rw", "wo"}

\* File::open succeeds: the path, links followed, is there and open to reading.
CanRead(fs, p) ==
    LET r == Resolve(fs, p)
    IN  /\ r # <<>>
        /\ HasEntry(fs, r[1])
        /\ Entry(fs, r[1]).mode \in {"rw", "ro"}

\* The directory after std::fs::write: a file that is there keeps its mode.
FsWrite(fs, p) ==
    LET r == Resolve(fs, p)[1]
    IN  IF HasEntry(fs, r) THEN fs ELSE fs \cup {RegularFile(r, "rw")}

\* The directory after File::open(p)?.set_permissions(mode).
SetPermissions(fs, p, mode) ==
    LET r == Resolve(fs, p)[1]
    IN  {e \in fs : e.name # r} \cup {[Entry(fs, r) EXCEPT !.mode = mode]}

(***************************************************************************)
(* The run: main, then process_payloads payload by payload.                *)
(***************************************************************************)
Init ==
    /\ binary \in Modules
    /\ list \in BOOLEAN
    /\ pc = "validate"
    /\ payloads = <<>>
    /\ idx = 0
    /\ result = <<>>
    /\ types = <<>>
    /\ to_stub = <<>>
    /\ code_section = <<>>
    /\ in_code_section = FALSE
    /\ after_wasi = 0
    /\ stub_pos = 0
    /\ stdout = <<>>
    /\ output = <<>>
    /\ written = <<>>
    /\ outcome = "running"
    /\ run = 1
    /\ suspended = <<>>
    /\ output_path = <<>>
    /\ files = {RegularFile(PathName(InputPath), "rw")}
    /\ counter = 0
    /\ probes = <<>>
    /\ target = <<>>
    /\ permissions = <<>>

CurrentPayload == payloads[idx + 1]
InLoop(kinds) == pc = "loop" /\ idx < Len(payloads) /\ CurrentPayload.kind \in kinds

\* main with the verdict of the input validation ignored.
MainValidateIgnored ==
    /\ pc = "validate"
    /\ pc' = "parse"
    /\ UNCHANGED <<binary, list, payloads, idx, result, types, to_stub, code_section,
                   in_code_section, after_wasi, stdout, output, written, outcome>>
    /\ UNCHANGED <<peer, fsvars, stub_pos>>

\* main, line 29: wasmparser::validate(&binary)
MainValidate ==
    /\ pc = "validate"
    /\ IF Validate(binary)
       THEN pc' = "parse" /\ outcome' = outcome
       ELSE pc' = "failed" /\ outcome' = "InputNotValid"
    /\ UNCHANGED <<binary, list, payloads, idx, result, types, to_stub, code_section,
                   in_code_section, after_wasi, stdout, output, written>>
    /\ UNCHANGED <<peer, fsvars, stub_pos>>

\* main, line 32: parse_all, then the call of process_payloads
MainParseAll ==
    /\ pc = "parse"
    /\ payloads' = ParseAll(binary)
    /\ pc' = "loop"
    /\ UNCHANGED <<binary, list, idx, result, types, to_stub, code_section,
                   in_code_section, after_wasi, stdout, output, written, outcome>>
    /\ UNCHANGED <<peer, fsvars, stub_pos>>

OnTypeSection ==
    /\ InLoop({"TypeSection"})
    /\ types' = CurrentPayload.data
    /\ result' = Append(result, RawSection(CurrentPayload.id, CurrentPayload.data))
    /\ idx' = idx + 1
    /\ UNCHANGED <<binary, list, pc, payloads, to_stub, code_section, in_code_section,
                   after_wasi, stdout, output, written, outcome>>
    /\ UNCHANGED <<peer, fsvars, stub_pos>>

OnImportSection ==
    /\ InLoop({"ImportSection"})
    /\ LET acc == ImportLoop([imports |-> <<>>, to_stub |-> to_stub,
                              after_wasi_count |-> <<>>], CurrentPayload.data)
       IN  /\ to_stub' = acc.to_stub
           /\ after_wasi' = UnwrapOr0(acc.after_wasi_count)
           /\ result' = Append(result, EncSection("import", acc.imports))
    /\ idx' = idx + 1
    /\ UNCHANGED <<binary, list, pc, payloads, types, code_section, in_code_section,
                   stdout, output, written, outcome>>
    /\ UNCHANGED <<peer, fsvars, stub_pos>>

\* The FunctionSection arm taking the entries of to_stub out of the list.
OnFunctionSectionDraining ==
    /\ InLoop({"FunctionSection"})
    /\ result' = Append(result,
                        EncSection("function", StubDeclarations(to_stub) \o CurrentPayload.data))
    /\ to_stub' = <<>>
    /\ idx' = idx + 1
    /\ UNCHANGED <<binary, list, pc, payloads, types, code_section,
                   in_code_section, after_wasi, stdout, output, written, outcome>>
    /\ UNCHANGED <<peer, fsvars, stub_pos>>

OnFunctionSection ==
    /\ InLoop({"FunctionSection"})
    /\ result' = Append(result,
                        EncSection("function", StubDeclarations(to_stub) \o CurrentPayload.data))
    /\ idx' = idx + 1
    /\ UNCHANGED <<binary, list, pc, payloads, types, to_stub, code_section,
                   in_code_section, after_wasi, stdout, output, written, outcome>>
    /\ UNCHANGED <<peer, fsvars, stub_pos>>

\* process_payloads, lines 98-103: the layout check, then the loop over
\* to_stub begins.
OnCodeSectionStart ==
    /\ InLoop({"CodeSectionStart"})
    /\ IF after_wasi > 0
       THEN pc' = "failed" /\ outcome' = "UnsupportedImportLayout"
       ELSE pc' = "stubbing" /\ outcome' = outcome
    /\ stub_pos' = 0
    /\ UNCHANGED <<binary, list, payloads, idx, result, types, to_stub, code_section,
                   in_code_section, after_wasi, stdout, output, written>>
    /\ UNCHANGED <<peer, fsvars>>

\* process_payloads, lines 103-121: one turn of `for f in &to_stub`, the
\* line printed and, for a function import, the body added.
OnCodeSectionStub ==
    /\ pc = "stubbing"
    /\ stub_pos < Len(to_stub)
    /\ stdout' = Append(stdout, StubReports(to_stub)[stub_pos + 1])
    /\ code_section' = code_section \o StubEntries(<<to_stub[stub_pos + 1]>>, types)
    /\ stub_pos' = stub_pos + 1
    /\ UNCHANGED <<binary, list, pc, payloads, idx, result, types, to_stub,
                   in_code_section, after_wasi, output, written, outcome>>
    /\ UNCHANGED <<peer, fsvars>>

\* process_payloads, line 122: the loop over to_stub is over.
OnCodeSectionStubbed ==
    /\ pc = "stubbing"
    /\ stub_pos = Len(to_stub)
    /\ in_code_section' = TRUE
    /\ idx' = idx + 1
    /\ pc' = "loop"
    /\ UNCHANGED <<binary, list, payloads, result, types, to_stub, code_section,
                   after_wasi, stub_pos, stdout, output, written, outcome>>
    /\ UNCHANGED <<peer, fsvars>>

\* The CodeSectionEntry arm with the body put in front of the section.
OnCodeSectionEntryInFront ==
    /\ InLoop({"CodeSectionEntry"})
    /\ code_section' = <<RawEntry(CurrentPayload.data)>> \o code_section
    /\ idx' = idx + 1
    /\ UNCHANGED <<binary, list, pc, payloads, result, types, to_stub, in_code_section,
                   after_wasi, stdout, output, written, outcome>>
    /\ UNCHANGED <<peer, fsvars, stub_pos>>

OnCodeSectionEntry ==
    /\ InLoop({"CodeSectionEntry"})
    /\ code_section' = Append(code_section, RawEntry(CurrentPayload.data))
    /\ idx' = idx + 1
    /\ UNCHANGED <<binary, list, pc, payloads, result, types, to_stub, in_code_section,
                   after_wasi, stdout, output, written, outcome>>
    /\ UNCHANGED <<peer, fsvars, stub_pos>>

\* The `_` arm with in_code_section left set after the flush.
OnOtherPayloadNoReset ==
    /\ InLoop({"Version", "End", "OtherSection"})
    /\ LET flushed == IF in_code_section
                      THEN Append(result, EncSection("code", code_section))
                      ELSE result
           sec == AsSection(CurrentPayload)
       IN  result' = IF sec # <<>>
                     THEN Append(flushed, RawSection(sec[1].id, sec[1].data))
                     ELSE flushed
    /\ idx' = idx + 1
    /\ UNCHANGED <<binary, list, pc, payloads, types, to_stub, code_section,
                   in_code_section, after_wasi, stdout, output, written, outcome>>
    /\ UNCHANGED <<peer, fsvars, stub_pos>>

\* The `_` arm with the copy of the section in the else branch of the flush.
OnOtherPayloadFlushOrCopy ==
    /\ InLoop({"Version", "End", "OtherSection"})
    /\ LET sec == AsSection(CurrentPayload)
       IN  result' = IF in_code_section
                     THEN Append(result, EncSection("code", code_section))
                     ELSE IF sec # <<>>
                          THEN Append(result, RawSection(sec[1].id, sec[1].data))
                          ELSE result
    /\ in_code_section' = FALSE
    /\ idx' = idx + 1
    /\ UNCHANGED <<binary, list, pc, payloads, types, to_stub, code_section,
                   after_wasi, stdout, output, written, outcome>>
    /\ UNCHANGED <<peer, fsvars, stub_pos>>

\* The `_` arm: every other payload (Version, End, the other sections).
OnOtherPayload ==
    /\ InLoop({"Version", "End", "OtherSection"})
    /\ LET flushed == IF in_code_section
                      THEN Append(result, EncSection("code", code_section))
                      ELSE result
           sec == AsSection(CurrentPayload)
       IN  result' = IF sec # <<>>
                     THEN Append(flushed, RawSection(sec[1].id, sec[1].data))
                     ELSE flushed
    /\ in_code_section' = FALSE
    /\ idx' = idx + 1
    /\ UNCHANGED <<binary, list, pc, payloads, types, to_stub, code_section,
                   after_wasi, stdout, output, written, outcome>>
    /\ UNCHANGED <<peer, fsvars, stub_pos>>

\* Lines 141-143 without the validation of the finished bytes.
FinishWithoutValidate ==
    /\ pc = "loop"
    /\ idx = Len(payloads)
    /\ pc' = "returned"
    /\ output' = <<ModuleFinish(result)>>
    /\ UNCHANGED <<binary, list, payloads, idx, result, types, to_stub, code_section,
                   in_code_section, after_wasi, stdout, written, outcome>>
    /\ UNCHANGED <<peer, fsvars, stub_pos>>

\* Lines 141-143: finish, validate, return.
FinishAndValidate ==
    /\ pc = "loop"
    /\ idx = Len(payloads)
    /\ LET bytes == ModuleFinish(result)
       IN  IF Validate(bytes)
           THEN pc' = "returned" /\ output' = <<bytes>> /\ outcome' = outcome
           ELSE pc' = "failed" /\ output' = output /\ outcome' = "OutputNotValid"
    /\ UNCHANGED <<binary, list, payloads, idx, result, types, to_stub, code_section,
                   in_code_section, after_wasi, stdout, written>>
    /\ UNCHANGED <<peer, fsvars, stub_pos>>

\* main, lines 36-37, and the match at the head of write_output (lines
\* 147-153): a given output path is taken as it is, otherwise the search
\* starts with i = 0.
MainWriteOutput ==
    /\ pc = "returned"
    /\ ~list
    /\ IF output_path # <<>>
       THEN pc' = "write" /\ target' = output_path /\ counter' = counter
       ELSE pc' = "search" /\ target' = target /\ counter' = 0
    /\ UNCHANGED <<binary, list, payloads, idx, result, types, to_stub, code_section,
                   in_code_section, after_wasi, stdout, output, written, outcome>>
    /\ UNCHANGED <<peer, output_path, files, probes, permissions, stub_pos>>

\* One turn of the search loop that takes the first candidate whatever exists.
WriteOutputProbeNoCheck ==
    /\ pc = "search"
    /\ probes' = Append(probes, CandidateName(FileStem(InputPath), counter))
    /\ target' = <<CandidateName(FileStem(InputPath), counter)>>
    /\ pc' = "write"
    /\ UNCHANGED <<binary, list, payloads, idx, result, types, to_stub, code_section,
                   in_code_section, after_wasi, stdout, output, written, outcome>>
    /\ UNCHANGED <<peer, output_path, files, counter, permissions, stub_pos>>

\* write_output, lines 154-167: one turn of the search loop.
WriteOutputProbe ==
    /\ pc = "search"
    /\ LET new_path == CandidateName(FileStem(InputPath), counter)
       IN  /\ probes' = Append(probes, new_path)
           /\ IF ~Exists(files, new_path)
              THEN target' = <<new_path>> /\ pc' = "write" /\ counter' = counter
              ELSE target' = target /\ pc' = pc /\ counter' = counter + 1
    /\ UNCHANGED <<binary, list, payloads, idx, result, types, to_stub, code_section,
                   in_code_section, after_wasi, stdout, output, written, outcome>>
    /\ UNCHANGED <<peer, output_path, files, permissions, stub_pos>>

\* write_output, line 170: std::fs::write(&output_path, output)?
WriteOutputWrite ==
    /\ pc = "write"
    /\ IF CanWrite(files, target[1])
       THEN /\ files' = FsWrite(files, target[1])
            /\ written' = Append(written, output[1])
            /\ pc' = "permissions"
            /\ outcome' = outcome
       ELSE /\ pc' = "failed"
            /\ outcome' = "IoError"
            /\ UNCHANGED <<files, written>>
    /\ UNCHANGED <<binary, list, payloads, idx, result, types, to_stub, code_section,
                   in_code_section, after_wasi, stdout, output>>
    /\ UNCHANGED <<peer, output_path, counter, probes, target, permissions, stub_pos>>

\* write_output, line 171: File::open(path)?.metadata()?.permissions()
WriteOutputPermissions ==
    /\ pc = "permissions"
    /\ IF CanRead(files, PathName(InputPath))
       THEN /\ permissions' = <<Entry(files, Resolve(files, PathName(InputPath))[1]).mode>>
            /\ pc' = "set_permissions"
            /\ outcome' = outcome
       ELSE /\ permissions' = permissions
            /\ pc' = "failed"
            /\ outcome' = "IoError"
    /\ UNCHANGED <<binary, list, payloads, idx, result, types, to_stub, code_section,
                   in_code_section, after_wasi, stdout, output, written>>
    /\ UNCHANGED <<peer, output_path, files, counter, probes, target, stub_pos>>

\* write_output, lines 172-173: File::open(output_path)?.set_permissions(..)?
WriteOutputSetPermissions ==
    /\ pc = "set_permissions"
    /\ IF CanRead(files, target[1])
       THEN /\ files' = SetPermissions(files, target[1], permissions[1])
            /\ pc' = "done"
            /\ outcome' = "Ok"
       ELSE /\ files' = files
            /\ pc' = "failed"
            /\ outcome' = "IoError"
    /\ UNCHANGED <<binary, list, payloads, idx, result, types, to_stub, code_section,
                   in_code_section, after_wasi, stdout, output, written>>
    /\ UNCHANGED <<peer, output_path, counter, probes, target, permissions, stub_pos>>

\* main, lines 38-39
MainListOnly ==
    /\ pc = "returned"
    /\ list
    /\ stdout' = Append(stdout, ListNote)
    /\ pc' = "done"
    /\ outcome' = "Ok"
    /\ UNCHANGED <<binary, list, payloads, idx, result, types, to_stub, code_section,
                   in_code_section, after_wasi, output, written>>
    /\ UNCHANGED <<peer, fsvars, stub_pos>>

Next ==
    \/ MainValidate
    \/ MainParseAll
    \/ OnTypeSection
    \/ OnImportSection
    \/ OnFunctionSection
    \/ OnCodeSectionStart
    \/ OnCodeSectionStub
    \/ OnCodeSectionStubbed
    \/ OnCodeSectionEntry
    \/ OnOtherPayload
    \/ FinishAndValidate
    \/ MainWriteOutput
    \/ WriteOutputProbe
    \/ WriteOutputWrite
    \/ WriteOutputPermissions
    \/ WriteOutputSetPermissions
    \/ MainListOnly

Spec == Init /\ [][Next]_vars

TypeOK ==
    /\ pc \in {"validate", "parse", "loop", "stubbing", "returned", "search", "write",
              "permissions", "set_permissions", "done", "failed"}
    /\ outcome \in {"running", "Ok", "InputNotValid", "UnsupportedImportLayout", "OutputNotValid",
                   "IoError"}
    /\ Len(output) <= 1

(***************************************************************************)
(* process_payloads as a function of its input: the loop run to its end on *)
(* locals of its own.                                                      *)
(***************************************************************************)
Locals ==
    [result |-> <<>>, types |-> <<>>, to_stub |-> <<>>, code_section |-> <<>>,
     in_code_section |-> FALSE, after_wasi |-> 0, reports |-> <<>>, panicked |-> FALSE]

HandlePayload(st, p) ==
    CASE p.kind = "TypeSection" ->
            [st EXCEPT !.types = p.data,
                       !.result = Append(@, RawSection(p.id, p.data))]
      [] p.kind = "ImportSection" ->
            LET acc == ImportLoop([imports |-> <<>>, to_stub |-> st.to_stub,
                                   after_wasi_count |-> <<>>], p.data)
            IN  [st EXCEPT !.to_stub = acc.to_stub,
                           !.after_wasi = UnwrapOr0(acc.after_wasi_count),
                           !.result = Append(@, EncSection("import", acc.imports))]
      [] p.kind = "FunctionSection" ->
            [st EXCEPT !.result = Append(@, EncSection("function",
                                            StubDeclarations(st.to_stub) \o p.data))]
      [] p.kind = "CodeSectionStart" ->
            IF st.after_wasi > 0
            THEN [st EXCEPT !.panicked = TRUE]
            ELSE [st EXCEPT !.reports = @ \o StubReports(st.to_stub),
                            !.code_section = @ \o StubEntries(st.to_stub, st.types),
                            !.in_code_section = TRUE]
      [] p.kind = "CodeSectionEntry" ->
            [st EXCEPT !.code_section = Append(@, RawEntry(p.data))]
      [] OTHER ->
            LET flushed == IF st.in_code_section
                           THEN Append(st.result, EncSection("code", st.code_section))
                           ELSE st.result
                sec == AsSection(p)
            IN  [st EXCEPT !.result = IF sec # <<>>
                                      THEN Append(flushed, RawSection(sec[1].id, sec[1].data))
                                      ELSE flushed,
                           !.in_code_section = FALSE]

RECURSIVE PayloadLoop(_, _)
PayloadLoop(st, ps) ==
    IF ps = <<>> \/ st.panicked THEN st
    ELSE PayloadLoop(HandlePayload(st, Head(ps)), Tail(ps))

\* What a run of main on the module b alone ends with: the error, or "Ok"
\* and the returned output; and what it reports.
RunAlone(b) ==
    IF ~Validate(b)
    THEN [outcome |-> "InputNotValid", output |-> <<>>, reports |-> <<>>]
    ELSE LET st == PayloadLoop(Locals, ParseAll(b))
             bytes == ModuleFinish(st.result)
         IN  IF st.panicked
             THEN [outcome |-> "UnsupportedImportLayout", output |-> <<>>,
                   reports |-> st.reports]
             ELSE IF Validate(bytes)
                  THEN [outcome |-> "Ok", output |-> <<bytes>>, reports |-> st.reports]
                  ELSE [outcome |-> "OutputNotValid", output |-> <<>>,
                        reports |-> st.reports]

(***************************************************************************)
(* Two invocations side by side.  Every variable of main and of            *)
(* process_payloads is a local of one invocation: its frame.  The standard *)
(* output and the file system are the only things the invocations share.   *)
(***************************************************************************)
Frame ==
    [binary |-> binary, list |-> list, pc |-> pc, payloads |-> payloads, idx |-> idx,
     result |-> result, types |-> types, to_stub |-> to_stub,
     code_section |-> code_section, in_code_section |-> in_code_section,
     after_wasi |-> after_wasi, stub_pos |-> stub_pos, output |-> output,
     outcome |-> outcome,
     output_path |-> output_path, counter |-> counter, probes |-> probes,
     target |-> target, permissions |-> permissions]

NewFrame(b, l) ==
    [binary |-> b, list |-> l, pc |-> "validate", payloads |-> <<>>, idx |-> 0,
     result |-> <<>>, types |-> <<>>, to_stub |-> <<>>, code_section |-> <<>>,
     in_code_section |-> FALSE, after_wasi |-> 0, stub_pos |-> 0, output |-> <<>>,
     outcome |-> "running",
     output_path |-> <<>>, counter |-> 0, probes |-> <<>>, target |-> <<>>,
     permissions |-> <<>>]

Finished(f) == f.pc \in {"done", "failed"}

\* The scheduler with the stub list kept in one place for both invocations.
SwitchSharingToStub ==
    /\ suspended # <<>>
    /\ ~Finished(suspended[1])
    /\ LET f == suspended[1]
       IN  /\ binary' = f.binary /\ list' = f.list /\ pc' = f.pc
           /\ payloads' = f.payloads /\ idx' = f.idx /\ result' = f.result
           /\ types' = f.types /\ to_stub' = to_stub
           /\ code_section' = f.code_section /\ in_code_section' = f.in_code_section
           /\ after_wasi' = f.after_wasi /\ stub_pos' = f.stub_pos
           /\ output' = f.output /\ outcome' = f.outcome
           /\ output_path' = f.output_path /\ counter' = f.counter
           /\ probes' = f.probes /\ target' = f.target
           /\ permissions' = f.permissions
    /\ suspended' = <<Frame>>
    /\ run' = 3 - run
    /\ UNCHANGED <<stdout, written, files>>

\* The scheduler gives the processor to the other invocation: the locals of
\* the running one are set aside and those of the other one come back.
Switch ==
    /\ suspended # <<>>
    /\ ~Finished(suspended[1])
    /\ LET f == suspended[1]
       IN  /\ binary' = f.binary /\ list' = f.list /\ pc' = f.pc
           /\ payloads' = f.payloads /\ idx' = f.idx /\ result' = f.result
           /\ types' = f.types /\ to_stub' = f.to_stub
           /\ code_section' = f.code_section /\ in_code_section' = f.in_code_section
           /\ after_wasi' = f.after_wasi /\ stub_pos' = f.stub_pos
           /\ output' = f.output /\ outcome' = f.outcome
           /\ output_path' = f.output_path /\ counter' = f.counter
           /\ probes' = f.probes /\ target' = f.target
           /\ permissions' = f.permissions
    /\ suspended' = <<Frame>>
    /\ run' = 3 - run
    /\ UNCHANGED <<stdout, written, files>>

\* The inputs of the two invocations: two function imports, the first one of
\* the target namespace, one local function.
PairImportLists ==
    {imps \in ImportLists :
        /\ Len(imps) = 2
        /\ imps[1].module = TargetNamespace
        /\ \A k \in 1..2 : IsFuncImport(imps[k])}

PairInputs ==
    {MkModule(tys, imps, TRUE, <<0>>, TRUE, <<>>, FALSE) :
        tys \in TypeTables, imps \in PairImportLists}

PairInit ==
    /\ binary \in PairInputs
    /\ list \in BOOLEAN
    /\ pc = "validate"
    /\ payloads = <<>>
    /\ idx = 0
    /\ result = <<>>
    /\ types = <<>>
    /\ to_stub = <<>>
    /\ code_section = <<>>
    /\ in_code_section = FALSE
    /\ after_wasi = 0
    /\ stub_pos = 0
    /\ stdout = <<>>
    /\ output = <<>>
    /\ written = <<>>
    /\ outcome = "running"
    /\ run = 1
    /\ \E b \in PairInputs : suspended = <<NewFrame(b, FALSE)>>
    /\ output_path = <<>>
    /\ files \in {{RegularFile(PathName(InputPath), mode)} : mode \in {"rw", "ro"}}
    /\ counter = 0
    /\ probes = <<>>
    /\ target = <<>>
    /\ permissions = <<>>

PairNext == Next \/ Switch

SpecPair == PairInit /\ [][PairNext]_vars

(***************************************************************************)
(* Vocabulary of the properties.                                           *)
(***************************************************************************)
InputImports == SectionData(binary, "import")
InputFunctions == SectionData(binary, "function")

IsTarget(imp) == imp.module = TargetNamespace
IsStubCandidate(imp) == IsTarget(imp) /\ IsFuncImport(imp)
IsPassthroughImport(imp) == ~IsStubCandidate(imp)

\* Some non-target import stands strictly after some target import.
NonTargetAfterTarget ==
    \E a, b \in 1..Len(InputImports) :
        a < b /\ IsTarget(InputImports[a]) /\ ~IsTarget(InputImports[b])
TargetsFormSuffix == ~NonTargetAfterTarget
TargetsAreFunctions == \A a \in 1..Len(InputImports) :
    IsTarget(InputImports[a]) => IsFuncImport(InputImports[a])

StubCandidates == SelectSeq(InputImports, IsStubCandidate)

Returned == output # <<>>
Out == output[1]

\* The CodeSectionStart payload has been handled without a panic.
StubsSynthesized ==
    /\ pc # "failed" \/ idx = Len(payloads)
    /\ \E p \in 1..idx : payloads[p].kind = "CodeSectionStart"

IsOtherSection(sec) == sec.id \notin {"type", "import", "function", "code"}

(***************************************************************************)
(* C1.  Precondition enforcement: whenever a non-target import stands      *)
(* strictly after a target import in a (valid) input, the run returns and  *)
(* writes no output and, if it fails, fails with UnsupportedImportLayout,  *)
(* and it cannot end well.                                                 *)
(***************************************************************************)
C1_PreconditionEnforced ==
    (Validate(binary) /\ NonTargetAfterTarget) =>
        /\ output = <<>>
        /\ written = <<>>
        /\ pc = "failed" => outcome = "UnsupportedImportLayout"

(***************************************************************************)
(* C2.  Index-space preservation (counts): a returned output of a module   *)
(* with k target imports (all functions, a suffix of the import list), m   *)
(* other imports and n local functions has m imports, k + n function       *)
(* declarations and k + n code bodies.                                     *)
(***************************************************************************)
C2_CountsPreserved ==
    LET k == Len(SelectSeq(InputImports, IsTarget))
        m == Len(InputImports) - k
        n == Len(InputFunctions)
    IN  (Returned /\ TargetsFormSuffix /\ TargetsAreFunctions) =>
            /\ Len(SectionData(Out, "import")) = m
            /\ Len(SectionData(Out, "function")) = k + n
            /\ Len(SectionData(Out, "code")) = k + n

(***************************************************************************)
(* C3.  Index parity: in a returned output every function index of the     *)
(* input names a function of the same type index, and an index that named  *)
(* a target import names a locally defined function.                       *)
(***************************************************************************)
C3_IndexParity ==
    Returned =>
        LET fin == FunctionIndexSpace(binary)
            fout == FunctionIndexSpace(Out)
            imported == SelectSeq(InputImports, IsFuncImport)
        IN  \A i \in 1..Len(fin) :
                /\ i <= Len(fout)
                /\ fout[i] = fin[i]
                /\ (i <= Len(imported) /\ IsTarget(imported[i])) =>
                       i > Len(ImportedFuncTypes(Out))

(***************************************************************************)
(* C4.  Round-trip validity: a valid input whose target imports form a     *)
(* suffix of the import list never fails; what is returned for it is valid.*)
(***************************************************************************)
C4_RoundTripValid ==
    (Validate(binary) /\ TargetsFormSuffix) =>
        /\ pc # "failed"
        /\ Returned => Validate(Out)

(***************************************************************************)
(* C5.  Signature fidelity: once the stubs are synthesized, the i-th       *)
(* entry of the code section is the stub of the i-th StubCandidate: one    *)
(* local per parameter, in order and of the parameter's kind, and the      *)
(* instructions [end] for no result, [i32.const 76, end] otherwise.        *)
(***************************************************************************)
C5_SignatureFidelity ==
    StubsSynthesized =>
        /\ Len(code_section) >= Len(StubCandidates)
        /\ \A i \in 1..Len(StubCandidates) :
               LET ty == SectionData(binary, "type")[StubCandidates[i].ty[2] + 1]
                   stub == EncodeEntry(code_section[i])
               IN  /\ ~code_section[i].raw
                   /\ Len(stub.locals) = Len(ty.params)
                   /\ \A p \in 1..Len(ty.params) : stub.locals[p] = <<1, ty.params[p]>>
                   /\ ty.results = <<>> => stub.instrs = <<End>>
                   /\ ty.results # <<>> => stub.instrs = <<I32Const(76), End>>

\* Stubs were synthesized for a candidate with parameters and two results
\* and for one with no result.
C5_Witness ==
    /\ StubsSynthesized
    /\ \E i, j \in 1..Len(StubCandidates) :
           LET ti == SectionData(binary, "type")[StubCandidates[i].ty[2] + 1]
               tj == SectionData(binary, "type")[StubCandidates[j].ty[2] + 1]
           IN  Len(ti.params) >= 1 /\ Len(ti.results) >= 1 /\ tj.results # ti.results

(***************************************************************************)
(* C6.  Passthrough imports: the import section of a returned output is    *)
(* exactly the imports of the input that are not StubCandidates, in their  *)
(* original order.                                                         *)
(***************************************************************************)
C6_PassthroughImports ==
    Returned =>
        SectionData(Out, "import") = SelectSeq(InputImports, IsPassthroughImport)

(***************************************************************************)
(* C7.  Passthrough fidelity: the sections of a returned output that are   *)
(* not type/import/function/code are those of the input, same id, same     *)
(* bytes, same order.                                                      *)
(***************************************************************************)
C7_PassthroughFidelity ==
    Returned => SelectSeq(Out, IsOtherSection) = SelectSeq(binary, IsOtherSection)

\* An output was returned for a module with a section before and a section
\* after its code section.
C7_Witness ==
    /\ Returned
    /\ HasSection(binary, "export") /\ HasSection(binary, "code") /\ HasSection(binary, "data")
    /\ Len(SectionData(binary, "code")) >= 1 /\ StubCandidates # <<>>

(***************************************************************************)
(* C8.  No partial output: an output is returned only when every payload   *)
(* was handled, the code section was flushed, and the finished bytes are   *)
(* valid; write_output gets only that output; a failed run has returned    *)
(* and written nothing.                                                    *)
(***************************************************************************)
C8_NoPartialOutput ==
    /\ Returned =>
           /\ pc \in {"returned", "search", "write", "permissions", "set_permissions",
                     "done"}
           /\ payloads # <<>> /\ idx = Len(payloads)
           /\ ~in_code_section
           /\ Out = ModuleFinish(result)
           /\ Validate(Out)
    /\ written # <<>> => Returned /\ written = <<Out>>
    /\ pc = "failed" => output = <<>> /\ written = <<>>

\* A module was assembled in full, failed validation and was not returned.
C8_Witness ==
    /\ pc = "failed" /\ outcome = "OutputNotValid"
    /\ result # <<>> /\ output = <<>> /\ written = <<>>

(***************************************************************************)
(* C9.  List-only mode: a run that ends well with the list flag set has    *)
(* reported every StubCandidate and has not called write_output; one that  *)
(* ends well without the flag has called write_output once, with the       *)
(* returned output.                                                        *)
(***************************************************************************)
C9_ListOnly ==
    pc = "done" =>
        IF list
        THEN /\ written = <<>>
             /\ \A i \in 1..Len(StubCandidates) :
                    \E l \in 1..Len(stdout) :
                        stdout[l] = <<"found", StubCandidates[i].module, StubCandidates[i].name>>
        ELSE written = <<Out>>

(***************************************************************************)
(* C10.  Input validation comes first: a run on an invalid input never     *)
(* decodes payloads, partitions imports, reports, assembles, returns or    *)
(* writes anything, and it fails with InputNotValid.                       *)
(***************************************************************************)
C10_InputValidationFirst ==
    ~Validate(binary) =>
        /\ pc \in {"validate", "failed"}
        /\ pc = "failed" => outcome = "InputNotValid"
        /\ payloads = <<>> /\ idx = 0
        /\ result = <<>> /\ types = <<>> /\ to_stub = <<>> /\ code_section = <<>>
        /\ stdout = <<>> /\ output = <<>> /\ written = <<>>

\* An invalid input with target imports was rejected.
C10_Witness ==
    /\ pc = "failed" /\ outcome = "InputNotValid"
    /\ StubCandidates # <<>>

(***************************************************************************)
(* C11.  Run isolation: of two invocations interleaved in any way, each    *)
(* one that has ended has the outcome and the output that a run of main on *)
(* its input alone ends with.                                              *)
(***************************************************************************)
\* The outcome of the rewrite of an invocation: the output it returned, or
\* the error it ended with.  An error of write_output comes after the output
\* was returned and leaves the outcome of the rewrite as it is.
RewriteOutcome(f) == IF f.output # <<>> THEN "Ok" ELSE f.outcome

FrameAsAlone(f) ==
    Finished(f) =>
        /\ RewriteOutcome(f) = RunAlone(f.binary).outcome
        /\ f.output = RunAlone(f.binary).output

C11_RunIsolation ==
    /\ FrameAsAlone(Frame)
    /\ suspended # <<>> => FrameAsAlone(suspended[1])

\* One invocation has returned an output while the other one, on another
\* input, is in the middle of its section pass with stubs collected.
C11_Witness ==
    /\ suspended # <<>>
    /\ pc = "done" /\ output # <<>>
    /\ suspended[1].pc = "loop" /\ suspended[1].to_stub # <<>>
    /\ suspended[1].idx < Len(suspended[1].payloads)
    /\ suspended[1].binary # binary

(***************************************************************************)
(* C12.  Deterministic classification: the partition the import section    *)
(* leaves is a function of the import list and of nothing else (not of the *)
(* type table, the other sections or the list flag): the stub list is the  *)
(* target-namespace imports in their order, the pass-through imports are   *)
(* the other imports in their order, the ordering verdict is raised        *)
(* exactly when the list has a target import and ends with a non-target    *)
(* one.  The outcome and the output of a run that has ended are those of   *)
(* process_payloads as a function of the input, in list mode or not.       *)
(***************************************************************************)
ImportsHandled(f) ==
    \E p \in 1..f.idx : f.payloads[p].kind = "ImportSection"

\* The partition an invocation holds; the pass-through imports are read back
\* from the import section being assembled.
PartitionOf(f) ==
    LET kept == SectionData(f.result, "import")
    IN  [stubs |-> f.to_stub,
         passthrough |-> [k \in 1..Len(kept) |->
                             Import(kept[k].module, kept[k].name,
                                    EncodeEntityType(kept[k].ty))],
         violation |-> f.after_wasi > 0]

\* The partition as a function of the import list.
PartitionOfList(imps) ==
    [stubs |-> SelectSeq(imps, IsTarget),
     passthrough |-> SelectSeq(imps, LAMBDA imp : ~IsTarget(imp)),
     violation |-> /\ \E a \in 1..Len(imps) : IsTarget(imps[a])
                   /\ ~IsTarget(imps[Len(imps)])]

C12_DeterministicClassification ==
    /\ ImportsHandled(Frame) => PartitionOf(Frame) = PartitionOfList(InputImports)
    /\ Finished(Frame) =>
           /\ RewriteOutcome(Frame) = RunAlone(binary).outcome
           /\ output = RunAlone(binary).output

\* A run in list mode has ended on an input with a target import followed by
\* two pass-through imports.
C12_Witness ==
    /\ Finished(Frame)
    /\ list
    /\ to_stub # <<>>
    /\ after_wasi > 0
    /\ Len(SectionData(result, "import")) >= 2

(***************************************************************************)
(* C13.  Ordering counter: once the import section is handled, after_wasi  *)
(* is the number of non-target imports that stand after the first target   *)
(* import of the import list (0 when there is no target import).           *)
(***************************************************************************)
NonTargetsAfterFirstTarget ==
    Cardinality({b \in 1..Len(InputImports) :
                    /\ ~IsTarget(InputImports[b])
                    /\ \E a \in 1..(b - 1) : IsTarget(InputImports[a])})

C13_OrderingCounter ==
    ImportsHandled(Frame) => after_wasi = NonTargetsAfterFirstTarget

(***************************************************************************)
(* C14.  Code reassembly order: the code section of an output returned for *)
(* a module with a code section is one synthesized body per StubCandidate, *)
(* in the order of the imports, followed by the original bodies, bytes     *)
(* unchanged, in their order.                                              *)
(***************************************************************************)
\* The body is synthesized for the import imp: its locals are the parameters
\* of the import's type and none of its instructions is an original one.
IsStubBodyOf(body, imp) ==
    LET ty == SectionData(binary, "type")[imp.ty[2] + 1]
    IN  /\ body.locals = [p \in 1..Len(ty.params) |-> <<1, ty.params[p]>>]
        /\ \A k \in 1..Len(body.instrs) : body.instrs[k].op # "opaque"

C14_CodeReassemblyOrder ==
    (Returned /\ HasSection(binary, "code")) =>
        LET code == SectionData(Out, "code")
            orig == SectionData(binary, "code")
            k == Len(StubCandidates)
        IN  /\ Len(code) = k + Len(orig)
            /\ \A s \in 1..k : IsStubBodyOf(code[s], StubCandidates[s])
            /\ \A j \in 1..Len(orig) : code[k + j] = orig[j]

\* An output was returned with two stubs of different types in front of two
\* original bodies.
C14_Witness ==
    /\ Returned /\ HasSection(binary, "code")
    /\ Len(SectionData(binary, "code")) >= 2
    /\ \E a, b \in 1..Len(StubCandidates) :
           a < b /\ StubCandidates[a].ty # StubCandidates[b].ty

(***************************************************************************)
(* C15.  Code section flush: the assembled module holds one code section   *)
(* from the moment the first payload after the code entries is handled,    *)
(* and none before; with it the sections of the assembled module are, in   *)
(* kind and order, the first sections of the input, so that the code       *)
(* section stands after what preceded it and before what followed it; a    *)
(* module without a code section gets none.                                *)
(***************************************************************************)
IsCodePayload(p) == p.kind \in {"CodeSectionStart", "CodeSectionEntry"}
IsCodeSection(sec) == sec.id = "code"

\* The first payload after the code entries has been handled.
FlushDue ==
    \E p \in 2..idx : IsCodePayload(payloads[p - 1]) /\ ~IsCodePayload(payloads[p])

C15_CodeSectionFlush ==
    /\ Len(SelectSeq(result, IsCodeSection)) = IF FlushDue THEN 1 ELSE 0
    /\ Len(result) <= Len(binary)
    /\ \A s \in 1..Len(result) : result[s].id = binary[s].id
    /\ (pc = "loop" /\ idx = Len(payloads)) => Len(result) = Len(binary)

\* The code section was flushed when the data section after it arrived, and
\* the end of the module was then handled.
C15_Witness ==
    /\ pc = "loop" /\ idx = Len(payloads)
    /\ HasSection(binary, "export") /\ HasSection(binary, "data")
    /\ \E s \in 2..(Len(result) - 1) :
           /\ result[s].id = "code" /\ Len(result[s].data) >= 2
           /\ result[s - 1].id = "export" /\ result[s + 1].id = "data"

(***************************************************************************)
(* C16.  Stub reporting: every StubCandidate is reported (namespace, name) *)
(* exactly once, when the import section is handled: not before, and no    *)
(* later than that.                                                        *)
(***************************************************************************)
TimesReported(imp) ==
    Len(SelectSeq(stdout, LAMBDA line : line = <<"found", imp.module, imp.name>>))

C16_StubReporting ==
    \A c \in 1..Len(StubCandidates) :
        TimesReported(StubCandidates[c]) = IF ImportsHandled(Frame) THEN 1 ELSE 0

(***************************************************************************)
(* C17.  Driver stage order: the stage of the driver, read off the last    *)
(* payload it handled, only moves forward along Start, TypesSeen,          *)
(* ImportsPartitioned, FunctionsRebuilt, InCodeSection, Done, so no stage  *)
(* is entered twice; and from the function-declaration stage on the type   *)
(* table and the stub list are no longer modified.                         *)
(***************************************************************************)
Stages == <<"Start", "TypesSeen", "ImportsPartitioned", "FunctionsRebuilt",
            "InCodeSection", "Done">>
StageRank(stage) == CHOOSE r \in 1..Len(Stages) : Stages[r] = stage

RECURSIVE StageAfter(_, _)
\* The stage after the first n payloads of ps were handled.
StageAfter(ps, n) ==
    IF n = 0 THEN "Start"
    ELSE CASE ps[n].kind = "TypeSection" -> "TypesSeen"
           [] ps[n].kind = "ImportSection" -> "ImportsPartitioned"
           [] ps[n].kind = "FunctionSection" -> "FunctionsRebuilt"
           [] IsCodePayload(ps[n]) -> "InCodeSection"
           [] ps[n].kind = "End" -> "Done"
           [] OTHER -> StageAfter(ps, n - 1)

StageMoves ==
    LET before == StageRank(StageAfter(payloads, idx))
        after == StageRank(StageAfter(payloads', idx'))
    IN  /\ after >= before
        /\ after >= StageRank("FunctionsRebuilt") => types' = types /\ to_stub' = to_stub

C17_StageOrder == [][StageMoves]_vars

\* A run went through every stage, with stubs to declare and to synthesize.
C17_Witness ==
    /\ StageAfter(payloads, idx) = "Done"
    /\ \A k \in {"TypeSection", "ImportSection", "FunctionSection", "CodeSectionEntry"} :
           \E p \in 1..idx : payloads[p].kind = k
    /\ types # <<>> /\ StubCandidates # <<>>

(***************************************************************************)
(* C18.  At the end of the section pass, before the validation, the        *)
(* function section of the assembled module has as many stub declarations  *)
(* as its code section has stub bodies.                                    *)
(***************************************************************************)
StubDeclarationsAdded ==
    IF HasSection(result, "function")
    THEN Len(SectionData(result, "function")) - Len(InputFunctions)
    ELSE 0

StubBodiesAdded ==
    Len(SelectSeq(SectionData(result, "code"), LAMBDA entry : ~entry.raw))

C18_StubCountsAgree ==
    (pc = "loop" /\ idx = Len(payloads)) => StubDeclarationsAdded = StubBodiesAdded

(***************************************************************************)
(* write_output against a file system: the run of main on a module that    *)
(* passes, with an output path given or not, in a directory where some of  *)
(* the candidate names are taken.                                          *)
(***************************************************************************)
MaxExisting == 3

WriteInputs ==
    {MkModule(tys, imps, TRUE, <<0>>, TRUE, <<0>>, FALSE) :
        tys \in TypeTables,
        imps \in {l \in ImportLists : Len(l) = 1 /\ IsFuncImport(l[1])}}

\* The output paths of the command line: none, a fresh name, a name that is
\* also the first candidate of the search.
GivenPaths == {<<>>, <<"out.wasm">>, <<CandidateName(FileStem(InputPath), 0)>>}

\* A chain of n symbolic links from the name first to the name last.
Hop(first, k) == IF k = 0 THEN first ELSE "hop" \o ToString(k)
Chain(first, n, last) ==
    {Symlink(Hop(first, k), IF k = n - 1 THEN last ELSE Hop(first, k + 1)) : k \in 0..(n - 1)}

\* The directories: the input file, open to writing or not; the first
\* candidate name free, taken by a file, or a symbolic link to nothing, to
\* the input, to a link to one of these, or to itself; any of the next
\* candidates up to MaxExisting; the given name free, a file open to reading
\* and writing, to reading only or to writing only, or a directory.  And
\* the directories of the input and a chain of MaxSymlinks links, or of one
\* link more, from the first candidate name to the input.
Directories ==
    {{RegularFile(PathName(InputPath), mode)} \cup first \cup taken \cup given :
        mode \in {"rw", "ro"},
        first \in {{}, {RegularFile(CandidateName(FileStem(InputPath), 0), "rw")}}
                  \cup {{Symlink(CandidateName(FileStem(InputPath), 0), to)} :
                           to \in {"nowhere.bin", PathName(InputPath),
                                   CandidateName(FileStem(InputPath), 0)}}
                  \cup {{Symlink(CandidateName(FileStem(InputPath), 0), "b"),
                         Symlink("b", to)} : to \in {"nowhere.bin", PathName(InputPath)}},
        taken \in SUBSET {RegularFile(CandidateName(FileStem(InputPath), n), "rw") :
                             n \in 1..(MaxExisting - 1)},
        given \in {{}, {Directory("out.wasm")}}
                  \cup {{RegularFile("out.wasm", m)} : m \in {"rw", "ro", "wo"}}}
    \cup
    {{RegularFile(PathName(InputPath), "rw")}
        \cup Chain(CandidateName(FileStem(InputPath), 0), n, PathName(InputPath)) :
        n \in {MaxSymlinks, MaxSymlinks + 1}}

WriteInit ==
    /\ binary \in WriteInputs
    /\ list \in BOOLEAN
    /\ pc = "validate"
    /\ payloads = <<>>
    /\ idx = 0
    /\ result = <<>>
    /\ types = <<>>
    /\ to_stub = <<>>
    /\ code_section = <<>>
    /\ in_code_section = FALSE
    /\ after_wasi = 0
    /\ stub_pos = 0
    /\ stdout = <<>>
    /\ output = <<>>
    /\ written = <<>>
    /\ outcome = "running"
    /\ run = 1
    /\ suspended = <<>>
    /\ output_path \in GivenPaths
    /\ files \in Directories
    /\ counter = 0
    /\ probes = <<>>
    /\ target = <<>>
    /\ permissions = <<>>

\* main runs on to its end.
SpecWrite == WriteInit /\ [][Next]_vars /\ WF_vars(Next)

\* The n-th name of the search for the input "module.wasm", n = 0, 1, 2, ...
StubbedName(n) ==
    IF n = 0 THEN "module - stubbed.wasm"
    ELSE IF n = 1 THEN "module - stubbed (1).wasm"
    ELSE IF n = 2 THEN "module - stubbed (2).wasm"
    ELSE IF n = 3 THEN "module - stubbed (3).wasm"
    ELSE "module - stubbed (" \o ToString(n) \o ").wasm"

\* The names tried so far are the first ones of the list, in its order.
TriedInOrder == \A n \in 1..Len(probes) : probes[n] = StubbedName(n - 1)

C19_Search ==
    /\ pc = "search" =>
          /\ output_path = <<>>
          /\ TriedInOrder
          /\ Len(probes) = counter
          /\ \A n \in 1..Len(probes) : Exists(files, probes[n])
          /\ counter < Cardinality(files)
    /\ (pc = "write" /\ output_path = <<>>) =>
          /\ TriedInOrder
          /\ Len(probes) = counter + 1
          /\ target = <<probes[Len(probes)]>>
          /\ ~Exists(files, target[1])
          /\ \A n \in 1..(Len(probes) - 1) : Exists(files, probes[n])
    /\ (pc \in {"write", "permissions", "set_permissions", "done"} /\ ~list
           /\ output_path # <<>>) =>
          /\ target = output_path
          /\ probes = <<>>
    /\ (pc = "done" /\ ~list) =>
          /\ target # <<>>
          /\ Exists(files, target[1])
          /\ written = <<output[1]>>
          /\ output_path = <<>> => target = <<probes[Len(probes)]>> /\ TriedInOrder

\* C19: with no output path, write_output tries "<stem> - stubbed.wasm",
\* "<stem> - stubbed (1).wasm", "<stem> - stubbed (2).wasm", ... in that
\* order, every name before the selected one exists and the selected one
\* does not exist when it is selected, so the write overwrites no file; the
\* search makes fewer turns than there are files and the run ends; a given
\* output path is the path written, unchanged.
C19_OutputPathSearch == []C19_Search /\ <>(pc \in {"done", "failed"})

\* The search went past two existing names and the third was written.
C19_Witness ==
    /\ pc = "done"
    /\ output_path = <<>>
    /\ counter = 2
    /\ target = <<"module - stubbed (2).wasm">>
    /\ written # <<>>

====
